---- MODULE Spec2Model ----
(***************************************************************************)
(* show_school_data.c: load compsci.json, parse it with json-c, and print  *)
(* the school, the department and every professor of the Faculty list.     *)
(*                                                                         *)
(* A json_object pointer is modelled as a record carrying its json type;   *)
(* the NULL pointer (which json-c also uses for the JSON value null) is    *)
(* the record NULL.  A C string pointer is a sequence: <<>> is the NULL    *)
(* pointer and <<s>> points at the text s.  stdout and stderr are the      *)
(* sequences of lines handed to printf and fprintf so far.                 *)
(***************************************************************************)
EXTENDS Integers, Sequences, FiniteSets, TLC

(***************************************************************************)
(* Bounds of the explored documents.                                       *)
(***************************************************************************)
MaxFaculty == 3
MaxCourses == 3

(***************************************************************************)
(* JSON values.                                                            *)
(***************************************************************************)
NULL == [type |-> "null"]
ABSENT == [type |-> "absent"]
Str(s) == [type |-> "string", text |-> s]
Num(s) == [type |-> "int", text |-> s]
Arr(e) == [type |-> "array", elems |-> e]
MkObj(f) ==
    [type |-> "object",
     fields |-> [k \in {x \in DOMAIN f : f[x] # ABSENT} |-> f[k]]]

NULLSTR == <<>>

(***************************************************************************)
(* The json-c calls the program makes.                                     *)
(***************************************************************************)
\* json_object_get_type: the type of the value; NULL has json_type_null.
json_object_get_type(jso) == jso.type

\* json_object_object_get_ex: whether obj is an object holding the key, and
\* the value under it (NULL when it does not).  A key whose value is the JSON
\* null is found, with the value NULL.
json_object_object_get_ex(obj, name) ==
    IF obj.type = "object" /\ name \in DOMAIN obj.fields
    THEN [found |-> TRUE, value |-> obj.fields[name]]
    ELSE [found |-> FALSE, value |-> NULL]

\* json_object_to_json_string of the scalar values that occur as elements.
json_object_to_json_string(jso) == jso.text

\* json_object_get_string: NULL for the NULL pointer, the text of a string,
\* and for every other type the JSON serialisation of the value.
json_object_get_string(jso) ==
    IF jso = NULL THEN NULLSTR
    ELSE IF jso.type = "string" THEN <<jso.text>>
    ELSE <<json_object_to_json_string(jso)>>

\* json_object_array_get_idx (0-based idx): the element, NULL when idx is out
\* of range or the element is the JSON null.
json_object_array_get_idx(arr, idx) ==
    IF idx + 1 \in DOMAIN arr.elems THEN arr.elems[idx + 1] ELSE NULL

\* json_object_array_length: the outcomes of the call.  On an array, its
\* length.  On any other value (NULL included) the library asserts, or reads
\* the array member of a value that has none: the process is killed, or a
\* meaningless length comes back, of which 0 is the one kept here.
json_object_array_length(jso) ==
    IF jso.type = "array"
    THEN {[killed |-> FALSE, n |-> Len(jso.elems)]}
    ELSE {[killed |-> TRUE, n |-> 0], [killed |-> FALSE, n |-> 0]}

(***************************************************************************)
(* get_string_element                                                      *)
(***************************************************************************)
\* get_string_element without the test of the element's type.
get_string_element_untyped(obj, name) ==
    LET r == json_object_object_get_ex(obj, name)
    IN  IF ~r.found THEN NULLSTR ELSE json_object_get_string(r.value)

get_string_element(obj, name) ==
    LET r == json_object_object_get_ex(obj, name)
    IN  IF ~r.found THEN NULLSTR
        ELSE IF json_object_get_type(r.value) # "string" THEN NULLSTR
        ELSE json_object_get_string(r.value)

(***************************************************************************)
(* The lines the program formats.                                          *)
(***************************************************************************)
\* The header without the space behind the colon.
HeaderLineNoSpace(sch, dep) == sch \o ":" \o dep

HeaderLine(sch, dep) == sch \o ": " \o dep
NameLine(n) == "    " \o n
EmailLine(e) == "        Email: " \o e
OfficeLine(b, r) == "        Office: " \o b \o " " \o r
TeachesLine == "        Teaches:"
CourseLine(c) == "            " \o c

\* FAIL_ON_VAL writes "Error: <msg>" and a newline; the two element messages
\* end in a newline of their own, which leaves an empty line behind them.
ErrorLines(msg, extra) ==
    IF extra THEN <<"Error: " \o msg, "">> ELSE <<"Error: " \o msg>>

(***************************************************************************)
(* The documents explored.  A field drawn as ABSENT is left out of its     *)
(* object.                                                                 *)
(***************************************************************************)
SeqsUpTo(S, n) == UNION {[1..k -> S] : k \in 0..n}

Professor(n, e, o, c) ==
    MkObj([name |-> n, email |-> e, office |-> o, courses_taught |-> c])
Office(b, r) == MkObj([building |-> b, room |-> r])

OfficePart(s) == {ABSENT, Num("7"), Str(s)}
Offices ==
    {ABSENT, NULL, Str("x")}
        \cup {Office(b, r) : b \in OfficePart("b"), r \in OfficePart("r")}
CourseElems == {NULL, Num("5"), Str("c1"), Str("c2")}
CourseLists ==
    {ABSENT, NULL, Num("3")}
        \cup {Arr(s) : s \in SeqsUpTo(CourseElems, MaxCourses)}

\* Professors that vary in name, email and office.
OfficeProfessors ==
    {Professor(n, e, o, c) :
        n \in {ABSENT, NULL, Str("p")},
        e \in {ABSENT, Num("4"), Str("e")},
        o \in Offices,
        c \in {ABSENT, Arr(<<Str("c1")>>)}}

\* Professors that vary in their course list.
CourseProfessors ==
    {Professor(n, e, o, c) :
        n \in {Num("1"), Str("q")},
        e \in {ABSENT, Str("e")},
        o \in {ABSENT, Office(Str("b"), Str("r"))},
        c \in CourseLists}

\* The elements of the longer Faculty lists.
ListProfessors ==
    {NULL, Num("9"),
     Professor(ABSENT, Str("e"), Office(Str("b"), Str("r")), Arr(<<Str("c1")>>)),
     Professor(Str("p"), ABSENT, ABSENT, ABSENT),
     Professor(Str("q"), Str("e"), Office(Str("b"), Str("r")), Arr(<<Str("c2")>>)),
     Professor(Str("p"), ABSENT, Office(Str("b"), ABSENT), Arr(<<Str("c1"), NULL, Str("c2")>>)),
     Professor(Str("q"), ABSENT, ABSENT, Num("3"))}

Document(s, d, f) == MkObj([School |-> s, Department |-> d, Faculty |-> f])

TopDocuments ==
    {Document(s, d, f) :
        s \in {ABSENT, NULL, Num("2"), Str("S")},
        d \in {ABSENT, NULL, Num("2"), Str("D")},
        f \in {ABSENT, Arr(<<Professor(Str("p"), ABSENT, ABSENT, ABSENT)>>)}}
FacultyDocuments ==
    {Document(Str("S"), Str("D"), f) :
        f \in {ABSENT, NULL, Num("6"), Str("x")}
                \cup {Arr(s) : s \in SeqsUpTo(ListProfessors, MaxFaculty)}}
ProfessorDocuments ==
    {Document(Str("S"), Str("D"), Arr(<<p>> \o t)) :
        p \in OfficeProfessors \cup CourseProfessors,
        t \in {<<>>, <<Professor(Str("p"), Str("e"), ABSENT, ABSENT)>>}}

\* What the text of a well-formed file denotes: an object, or some other
\* JSON value (the text null denotes NULL).
Documents ==
    {NULL, Num("0")} \cup TopDocuments \cup FacultyDocuments \cup ProfessorDocuments

\* compsci.json as the environment holds it.
Files ==
    {[kind |-> k, tree |-> NULL] : k \in {"missing", "unreadable", "empty", "garbage"}}
        \cup {[kind |-> "json", tree |-> t] : t \in Documents}

(***************************************************************************)
(* State.                                                                  *)
(*   file           compsci.json, as the environment holds it              *)
(*   buffer, fp     the malloc'ed buffer and the FILE of get_file_contents *)
(*   file_contents  main's pointer to the buffer, or "NULL"                *)
(*   data, tree     the parsed tree main holds, and whether it is held     *)
(*   i_faculty      main's loop index i; i_course is print_professor's     *)
(*   status         "running" until the process ends                       *)
(***************************************************************************)
VARIABLES pc, file, buffer, fp, file_contents, data, tree, school,
          department, faculty, n_faculty, i_faculty, person, courses,
          n_courses, i_course, stdout, stderr, status

vars ==
    <<pc, file, buffer, fp, file_contents, data, tree, school, department,
      faculty, n_faculty, i_faculty, person, courses, n_courses, i_course,
      stdout, stderr, status>>

heap == <<buffer, fp, file_contents, data, tree>>
main_locals == <<school, department, faculty, n_faculty, i_faculty>>
prof_locals == <<person, courses, n_courses, i_course>>

Init ==
    /\ pc = "stat"
    /\ file \in Files
    /\ buffer = "none"
    /\ fp = "none"
    /\ file_contents = "NULL"
    /\ data = NULL
    /\ tree = "none"
    /\ school = NULLSTR
    /\ department = NULLSTR
    /\ faculty = NULL
    /\ n_faculty = 0
    /\ i_faculty = 0
    /\ person = NULL
    /\ courses = NULL
    /\ n_courses = 0
    /\ i_course = 0
    /\ stdout = <<>>
    /\ stderr = <<>>
    /\ status = "running"

(***************************************************************************)
(* How the process ends.                                                   *)
(***************************************************************************)
\* The body of FAIL_ON_VAL once its test has succeeded.
Fail(msg, extra) ==
    /\ stderr' = stderr \o ErrorLines(msg, extra)
    /\ status' = "EXIT_FAILURE"
    /\ pc' = "done"

\* The process is killed by a signal inside a json-c call.
Killed ==
    /\ status' = "SIGNAL"
    /\ pc' = "done"
    /\ UNCHANGED stderr

(***************************************************************************)
(* get_file_contents                                                       *)
(***************************************************************************)
Stat ==
    /\ pc = "stat"
    /\ pc' = IF file.kind = "missing" THEN "check_contents" ELSE "malloc"
    /\ UNCHANGED <<file, heap, main_locals, prof_locals, stdout, stderr, status>>

Malloc ==
    /\ pc = "malloc"
    /\ \E ok \in BOOLEAN :
        IF ok
        THEN buffer' = "allocated" /\ pc' = "fopen"
        ELSE buffer' = buffer /\ pc' = "check_contents"
    /\ UNCHANGED <<file, fp, file_contents, data, tree, main_locals,
                   prof_locals, stdout, stderr, status>>

Fopen ==
    /\ pc = "fopen"
    /\ IF file.kind = "unreadable"
       THEN buffer' = "freed" /\ fp' = fp /\ pc' = "check_contents"
       ELSE buffer' = buffer /\ fp' = "open" /\ pc' = "fread"
    /\ UNCHANGED <<file, file_contents, data, tree, main_locals, prof_locals,
                   stdout, stderr, status>>

\* fread of st_size bytes as one item; an empty file never yields the item.
\* Either way the file is closed before returning.
Fread ==
    /\ pc = "fread"
    /\ \E ok \in IF file.kind = "empty" THEN {FALSE} ELSE BOOLEAN :
        IF ok
        THEN buffer' = buffer /\ file_contents' = "buffer"
        ELSE buffer' = "freed" /\ file_contents' = file_contents
    /\ fp' = "closed"
    /\ pc' = "check_contents"
    /\ UNCHANGED <<file, data, tree, main_locals, prof_locals, stdout, stderr,
                   status>>

(***************************************************************************)
(* main, up to the header line                                             *)
(***************************************************************************)
CheckContents ==
    /\ pc = "check_contents"
    /\ IF file_contents = "NULL"
       THEN Fail("Error reading compsci.json", FALSE)
       ELSE pc' = "parse" /\ UNCHANGED <<stderr, status>>
    /\ UNCHANGED <<file, heap, main_locals, prof_locals, stdout>>

\* json_tokener_parse: the tree of a well-formed text, NULL for any other
\* text -- and for the text null, whose tree is the NULL pointer.  The buffer
\* holds the st_size bytes of the file and no terminating 0, so the tokener
\* reads on behind it: the value it has parsed stands, unless the read leaves
\* the mapped memory and the process is killed.
Parse ==
    /\ pc = "parse"
    /\ \E killed \in BOOLEAN :
        IF killed
        THEN Killed /\ UNCHANGED <<data, tree>>
        ELSE /\ data' = IF file.kind = "json" THEN file.tree ELSE NULL
             /\ tree' = IF data' # NULL THEN "held" ELSE tree
             /\ pc' = "check_data"
             /\ UNCHANGED <<stderr, status>>
    /\ UNCHANGED <<file, buffer, fp, file_contents, main_locals, prof_locals,
                   stdout>>

CheckData ==
    /\ pc = "check_data"
    /\ IF data = NULL
       THEN Fail("Invalid JSON data", FALSE)
       ELSE pc' = "free" /\ UNCHANGED <<stderr, status>>
    /\ UNCHANGED <<file, heap, main_locals, prof_locals, stdout>>

FreeContents ==
    /\ pc = "free"
    /\ buffer' = "freed"
    /\ pc' = "school"
    /\ UNCHANGED <<file, fp, file_contents, data, tree, main_locals,
                   prof_locals, stdout, stderr, status>>

GetSchool ==
    /\ pc = "school"
    /\ school' = get_string_element(data, "School")
    /\ IF school' = NULLSTR
       THEN Fail("Error reading element 'School'", TRUE)
       ELSE pc' = "department" /\ UNCHANGED <<stderr, status>>
    /\ UNCHANGED <<file, heap, department, faculty, n_faculty, i_faculty,
                   prof_locals, stdout>>

\* GetDepartment failing with the message of the School test.
GetDepartmentSchoolMessage ==
    /\ pc = "department"
    /\ department' = get_string_element(data, "Department")
    /\ IF department' = NULLSTR
       THEN Fail("Error reading element 'School'", TRUE)
       ELSE pc' = "header" /\ UNCHANGED <<stderr, status>>
    /\ UNCHANGED <<file, heap, school, faculty, n_faculty, i_faculty,
                   prof_locals, stdout>>

GetDepartment ==
    /\ pc = "department"
    /\ department' = get_string_element(data, "Department")
    /\ IF department' = NULLSTR
       THEN Fail("Error reading element 'Department'", TRUE)
       ELSE pc' = "header" /\ UNCHANGED <<stderr, status>>
    /\ UNCHANGED <<file, heap, school, faculty, n_faculty, i_faculty,
                   prof_locals, stdout>>

PrintHeader ==
    /\ pc = "header"
    /\ stdout' = Append(stdout, HeaderLine(school[1], department[1]))
    /\ pc' = "faculty"
    /\ UNCHANGED <<file, heap, main_locals, prof_locals, stderr, status>>

(***************************************************************************)
(* main: the Faculty loop                                                  *)
(***************************************************************************)
\* GetFaculty taking the length without looking at what
\* json_object_object_get_ex returned.
GetFacultyUnchecked ==
    /\ pc = "faculty"
    /\ LET r == json_object_object_get_ex(data, "Faculty")
       IN  /\ faculty' = r.value
           /\ \E o \in json_object_array_length(r.value) :
                 IF o.killed
                 THEN Killed /\ UNCHANGED <<n_faculty, i_faculty>>
                 ELSE /\ n_faculty' = o.n
                      /\ i_faculty' = 0
                      /\ pc' = "loop"
                      /\ UNCHANGED <<stderr, status>>
    /\ UNCHANGED <<file, heap, school, department, prof_locals, stdout>>

\* json_object_object_get_ex of "Faculty", then json_object_array_length
\* of whatever value was found.
GetFaculty ==
    /\ pc = "faculty"
    /\ LET r == json_object_object_get_ex(data, "Faculty")
       IN  /\ faculty' = r.value
           /\ IF r.found
              THEN \E o \in json_object_array_length(r.value) :
                      IF o.killed
                      THEN Killed /\ UNCHANGED <<n_faculty, i_faculty>>
                      ELSE /\ n_faculty' = o.n
                           /\ i_faculty' = 0
                           /\ pc' = "loop"
                           /\ UNCHANGED <<stderr, status>>
              ELSE /\ pc' = "put"
                   /\ UNCHANGED <<n_faculty, i_faculty, stderr, status>>
    /\ UNCHANGED <<file, heap, school, department, prof_locals, stdout>>

\* One test of the for loop: fetch element i and call print_professor on
\* it unless it is NULL.
FacultyLoop ==
    /\ pc = "loop"
    /\ IF i_faculty < n_faculty
       THEN LET professor == json_object_array_get_idx(faculty, i_faculty)
            IN  IF professor # NULL
                THEN /\ person' = professor
                     /\ pc' = "name"
                     /\ UNCHANGED i_faculty
                ELSE /\ i_faculty' = i_faculty + 1
                     /\ pc' = "loop"
                     /\ UNCHANGED person
       ELSE pc' = "put" /\ UNCHANGED <<i_faculty, person>>
    /\ UNCHANGED <<file, heap, school, department, faculty, n_faculty,
                   courses, n_courses, i_course, stdout, stderr, status>>

\* print_professor returns: main's loop moves to the next element.
Return ==
    /\ pc' = "loop"
    /\ i_faculty' = i_faculty + 1

(***************************************************************************)
(* print_professor                                                         *)
(***************************************************************************)
PrintName ==
    /\ pc = "name"
    /\ LET name == get_string_element(person, "name")
       IN  IF name = NULLSTR
           THEN Return /\ UNCHANGED stdout
           ELSE /\ stdout' = Append(stdout, NameLine(name[1]))
                /\ pc' = "email"
                /\ UNCHANGED i_faculty
    /\ UNCHANGED <<file, heap, school, department, faculty, n_faculty,
                   prof_locals, stderr, status>>

PrintEmail ==
    /\ pc = "email"
    /\ LET email == get_string_element(person, "email")
       IN  stdout' = IF email # NULLSTR
                     THEN Append(stdout, EmailLine(email[1]))
                     ELSE stdout
    /\ pc' = "office"
    /\ UNCHANGED <<file, heap, main_locals, prof_locals, stderr, status>>

\* PrintOffice printing as soon as one of the two is there; printf shows
\* a NULL string as (null).
PrintOfficePartial ==
    /\ pc = "office"
    /\ LET r == json_object_object_get_ex(person, "office")
           building == get_string_element(r.value, "building")
           room == get_string_element(r.value, "room")
           shown(str) == IF str = NULLSTR THEN "(null)" ELSE str[1]
       IN  stdout' = IF r.found /\ (building # NULLSTR \/ room # NULLSTR)
                     THEN Append(stdout, OfficeLine(shown(building), shown(room)))
                     ELSE stdout
    /\ pc' = "teaches"
    /\ UNCHANGED <<file, heap, main_locals, prof_locals, stderr, status>>

PrintOffice ==
    /\ pc = "office"
    /\ LET r == json_object_object_get_ex(person, "office")
           building == get_string_element(r.value, "building")
           room == get_string_element(r.value, "room")
       IN  stdout' = IF r.found /\ building # NULLSTR /\ room # NULLSTR
                     THEN Append(stdout, OfficeLine(building[1], room[1]))
                     ELSE stdout
    /\ pc' = "teaches"
    /\ UNCHANGED <<file, heap, main_locals, prof_locals, stderr, status>>

\* PrintTeaches writing the line only for a record that has courses_taught.
PrintTeachesIfCourses ==
    /\ pc = "teaches"
    /\ stdout' = IF json_object_object_get_ex(person, "courses_taught").found
                 THEN Append(stdout, TeachesLine)
                 ELSE stdout
    /\ pc' = "courses"
    /\ UNCHANGED <<file, heap, main_locals, prof_locals, stderr, status>>

PrintTeaches ==
    /\ pc = "teaches"
    /\ stdout' = Append(stdout, TeachesLine)
    /\ pc' = "courses"
    /\ UNCHANGED <<file, heap, main_locals, prof_locals, stderr, status>>

\* json_object_object_get_ex of "courses_taught", then
\* json_object_array_length of whatever value was found.
GetCourses ==
    /\ pc = "courses"
    /\ LET r == json_object_object_get_ex(person, "courses_taught")
       IN  /\ courses' = r.value
           /\ IF r.found
              THEN \E o \in json_object_array_length(r.value) :
                      IF o.killed
                      THEN Killed /\ UNCHANGED <<n_courses, i_course, i_faculty>>
                      ELSE /\ n_courses' = o.n
                           /\ i_course' = 0
                           /\ pc' = "course"
                           /\ UNCHANGED <<i_faculty, stderr, status>>
              ELSE /\ Return
                   /\ UNCHANGED <<n_courses, i_course, stderr, status>>
    /\ UNCHANGED <<file, heap, school, department, faculty, n_faculty,
                   person, stdout>>

\* One test of the for loop over the courses, and its body.
CourseLoop ==
    /\ pc = "course"
    /\ IF i_course < n_courses
       THEN LET course == json_object_array_get_idx(courses, i_course)
                course_name == json_object_get_string(course)
            IN  IF course = NULL
                THEN Return /\ UNCHANGED <<i_course, stdout>>
                ELSE /\ stdout' = IF course_name # NULLSTR
                                  THEN Append(stdout, CourseLine(course_name[1]))
                                  ELSE stdout
                     /\ i_course' = i_course + 1
                     /\ pc' = "course"
                     /\ UNCHANGED i_faculty
       ELSE Return /\ UNCHANGED <<i_course, stdout>>
    /\ UNCHANGED <<file, heap, school, department, faculty, n_faculty,
                   person, courses, n_courses, stderr, status>>

(***************************************************************************)
(* main: the end                                                           *)
(***************************************************************************)
Put ==
    /\ pc = "put"
    /\ tree' = "released"
    /\ pc' = "exit"
    /\ UNCHANGED <<file, buffer, fp, file_contents, data, main_locals,
                   prof_locals, stdout, stderr, status>>

Exit ==
    /\ pc = "exit"
    /\ status' = "EXIT_SUCCESS"
    /\ pc' = "done"
    /\ UNCHANGED <<file, heap, main_locals, prof_locals, stdout, stderr>>

Next ==
    \/ Stat \/ Malloc \/ Fopen \/ Fread
    \/ CheckContents \/ Parse \/ CheckData \/ FreeContents
    \/ GetSchool \/ GetDepartment \/ PrintHeader
    \/ GetFaculty \/ FacultyLoop
    \/ PrintName \/ PrintEmail \/ PrintOffice \/ PrintTeaches
    \/ GetCourses \/ CourseLoop
    \/ Put \/ Exit

Spec == Init /\ [][Next]_vars

(***************************************************************************)
(* Vocabulary of the properties: what compsci.json holds, and how the      *)
(* lines of stdout fall to the professors of the Faculty list.             *)
(***************************************************************************)
IsString(obj, key) ==
    /\ obj.type = "object"
    /\ key \in DOMAIN obj.fields
    /\ obj.fields[key].type = "string"
HasKey(obj, key) == obj.type = "object" /\ key \in DOMAIN obj.fields

\* json_tokener_parse has returned a tree.
Parsed == tree # "none"
\* School and Department are both strings.
Required == IsString(file.tree, "School") /\ IsString(file.tree, "Department")
FirstLine == file.tree.fields.School.text \o ": " \o file.tree.fields.Department.text

FacultyValue ==
    IF HasKey(file.tree, "Faculty") THEN file.tree.fields.Faculty ELSE ABSENT
Fac == IF FacultyValue.type = "array" THEN FacultyValue.elems ELSE <<>>
HasName(p) == IsString(p, "name")
\* The named professors among the first k elements, in array order.
NamedUpTo(k) == SelectSeq(SubSeq(Fac, 1, k), HasName)
Named == NamedUpTo(Len(Fac))

Texts ==
    {"S", "D", "p", "q", "e", "b", "r", "x", "c1", "c2",
     "0", "1", "2", "3", "4", "5", "6", "7", "9"}
NameLines == {"    " \o t : t \in Texts}
EmailLines == {"        Email: " \o t : t \in Texts}
OfficeLines == {"        Office: " \o t \o " " \o u : t \in Texts, u \in Texts}
CourseLines == {"            " \o t : t \in Texts}
Class(l) ==
    CASE l \in NameLines -> "name"
      [] l \in EmailLines -> "email"
      [] l \in OfficeLines -> "office"
      [] l = "        Teaches:" -> "teaches"
      [] l \in CourseLines -> "course"
      [] OTHER -> "other"
Rank(c) ==
    CASE c = "name" -> 1 [] c = "email" -> 2 [] c = "office" -> 3
      [] c = "teaches" -> 4 [] c = "course" -> 5 [] OTHER -> 0

\* The positions of the name lines, and the lines from the m-th name line
\* up to the next one.
NameIdx == {k \in 1..Len(stdout) : Class(stdout[k]) = "name"}
NameCount == Cardinality(NameIdx)
NamePos(m) == CHOOSE k \in NameIdx : Cardinality({x \in NameIdx : x < k}) = m - 1
Segment(m) ==
    SubSeq(stdout, NamePos(m),
           IF m < NameCount THEN NamePos(m + 1) - 1 ELSE Len(stdout))
\* print_professor has returned from the m-th named professor.
Finished(m) == m < NameCount \/ pc \in {"loop", "put", "exit"} \/ status = "EXIT_SUCCESS"
LinesOf(seg, c) == SelectSeq(seg, LAMBDA l : Class(l) = c)
\* Every line after the header belongs to a named professor, in order.
Aligned ==
    /\ NameCount <= Len(Named)
    /\ \A k \in 2..Len(stdout) : Class(stdout[k]) # "other"
    /\ Len(stdout) >= 2 => Class(stdout[2]) = "name"

OfficeOK(p) ==
    /\ HasKey(p, "office")
    /\ IsString(p.fields.office, "building")
    /\ IsString(p.fields.office, "room")
CoursesOf(p) ==
    IF HasKey(p, "courses_taught") /\ p.fields.courses_taught.type = "array"
    THEN p.fields.courses_taught.elems
    ELSE <<>>
HasNullCourse(p) == \E k \in DOMAIN CoursesOf(p) : CoursesOf(p)[k] = NULL
FirstNull(p) == CHOOSE k \in DOMAIN CoursesOf(p) :
    CoursesOf(p)[k] = NULL /\ \A x \in 1..(k - 1) : CoursesOf(p)[x] # NULL

(***************************************************************************)
(* C1: once compsci.json has been read and parsed and School and           *)
(* Department are strings, the first line of stdout is                     *)
(* "<School>: <Department>", and no other line is written before it: the   *)
(* line is there as soon as main is past its printf.                       *)
(***************************************************************************)
C1_HeaderFirst ==
    (Parsed /\ Required) =>
        /\ stdout # <<>> => stdout[1] = FirstLine
        /\ pc \notin {"check_data", "free", "school", "department", "header"}
              => stdout # <<>>

C1_Witness ==
    /\ status = "EXIT_SUCCESS"
    /\ Len(stdout) >= 2
    /\ stdout[1] = "S: D"
    /\ Class(stdout[2]) = "name"

C3_OnlyTopLevelFatal ==
    (pc = "done" /\ Parsed /\ Required) => status = "EXIT_SUCCESS"

(***************************************************************************)
(* C4: for a professor whose courses_taught is an array without null       *)
(* elements, the course lines written are exactly the string elements, in  *)
(* array order.                                                            *)
(***************************************************************************)
C4_OnlyStringCourses ==
    (Parsed /\ Required /\ Aligned) =>
        \A m \in 1..NameCount :
            (Finished(m) /\ ~HasNullCourse(Named[m])) =>
                LinesOf(Segment(m), "course")
                    = [k \in DOMAIN SelectSeq(CoursesOf(Named[m]),
                                              LAMBDA e : e.type = "string") |->
                          "            "
                              \o SelectSeq(CoursesOf(Named[m]),
                                           LAMBDA e : e.type = "string")[k].text]

(***************************************************************************)
(* C5: a Faculty element without a string name writes no line: the steps   *)
(* taken on it leave stdout and stderr alone and hand over to the next     *)
(* element; and the name lines of stdout are those of the named elements,  *)
(* in array order, each written when its turn comes.                       *)
(***************************************************************************)
C5_AtNameless ==
    /\ Parsed
    /\ pc \in {"loop", "name"}
    /\ i_faculty < Len(Fac)
    /\ ~HasName(Fac[i_faculty + 1])
C5_SkipStep ==
    C5_AtNameless =>
        /\ stdout' = stdout
        /\ stderr' = stderr
        /\ status' = status
        /\ \/ pc' = "loop" /\ i_faculty' = i_faculty + 1
           \/ pc = "loop" /\ pc' = "name" /\ i_faculty' = i_faculty
C5_NamedInOrder ==
    (Parsed /\ Required) =>
        /\ Aligned
        /\ \A m \in 1..NameCount :
              stdout[NamePos(m)] = "    " \o Named[m].fields.name.text
        /\ pc = "loop" => NameCount = Len(NamedUpTo(i_faculty))
        /\ status = "EXIT_SUCCESS" => NameCount = Len(Named)
C5_NamelessSkipped == []C5_NamedInOrder /\ [][C5_SkipStep]_vars

C5_Witness ==
    /\ status = "EXIT_SUCCESS"
    /\ Len(Fac) >= 2
    /\ HasKey(Fac[1], "email") /\ ~HasKey(Fac[1], "name")
    /\ HasName(Fac[2])
    /\ Len(stdout) >= 2
    /\ stdout[2] = "    " \o Fac[2].fields.name.text

(***************************************************************************)
(* C6: the lines of a named professor hold an Office line, the one made    *)
(* of building and room, if and only if office holds a string building     *)
(* and a string room; no other office text is written, and the name line   *)
(* and the Teaches line are there all the same.                            *)
(***************************************************************************)
C6_OfficeBothOrNone ==
    (Parsed /\ Required) =>
        /\ Aligned
        /\ \A m \in 1..NameCount :
              LET p == Named[m]
                  seg == Segment(m)
                  off == LinesOf(seg, "office")
              IN  /\ Len(off) <= 1
                  /\ Len(off) = 1 =>
                        /\ OfficeOK(p)
                        /\ off[1] = "        Office: "
                                      \o p.fields.office.fields.building.text
                                      \o " "
                                      \o p.fields.office.fields.room.text
                  /\ (OfficeOK(p) /\ Len(LinesOf(seg, "teaches")) > 0) => Len(off) = 1
                  /\ Finished(m) =>
                        /\ seg[1] = "    " \o p.fields.name.text
                        /\ Len(LinesOf(seg, "teaches")) = 1

C6_Witness ==
    /\ status = "EXIT_SUCCESS"
    /\ NameCount >= 1
    /\ HasKey(Named[1], "office")
    /\ IsString(Named[1].fields.office, "building")
    /\ ~HasKey(Named[1].fields.office, "room")
    /\ LinesOf(Segment(1), "office") = <<>>
    /\ LinesOf(Segment(1), "teaches") # <<>>

(***************************************************************************)
(* C7: the lines of a named professor come in the order name, Email,       *)
(* Office, Teaches, courses: the name line first, an Email line exactly    *)
(* when email is a string, at most one Office line, one Teaches line once  *)
(* print_professor has returned, and course lines only behind the Teaches  *)
(* line.  A record that holds nothing but a name yields its name line and  *)
(* the Teaches line.                                                       *)
(***************************************************************************)
C7_LineOrder ==
    (Parsed /\ Required) =>
        /\ Aligned
        /\ \A m \in 1..NameCount :
              LET p == Named[m]
                  seg == Segment(m)
                  mail == LinesOf(seg, "email")
              IN  /\ seg[1] = "    " \o p.fields.name.text
                  /\ \A k \in 1..(Len(seg) - 1) :
                        \/ Rank(Class(seg[k])) < Rank(Class(seg[k + 1]))
                        \/ Class(seg[k]) = "course" /\ Class(seg[k + 1]) = "course"
                  /\ \A k \in 2..Len(seg) :
                        Class(seg[k]) = "course"
                            => Class(seg[k - 1]) \in {"teaches", "course"}
                  /\ mail # <<>> =>
                        /\ IsString(p, "email")
                        /\ mail[1] = "        Email: " \o p.fields.email.text
                  /\ (IsString(p, "email") /\ Len(seg) >= 2) => Class(seg[2]) = "email"
                  /\ LinesOf(seg, "office") # <<>> => HasKey(p, "office")
                  /\ LinesOf(seg, "course") # <<>> => HasKey(p, "courses_taught")
                  /\ Finished(m) => Len(LinesOf(seg, "teaches")) = 1
                  /\ (Finished(m) /\ DOMAIN p.fields = {"name"})
                        => seg = <<"    " \o p.fields.name.text, "        Teaches:">>

C7_Witness ==
    /\ status = "EXIT_SUCCESS"
    /\ NameCount >= 2
    /\ DOMAIN Named[1].fields = {"name"}
    /\ Segment(1) = <<"    p", "        Teaches:">>
    /\ Len(Segment(2)) = 5

(***************************************************************************)
(* C8: a parsed document with string School and Department whose Faculty   *)
(* is absent or an empty array writes the header line and nothing else,    *)
(* writes nothing to stderr, and ends with EXIT_SUCCESS.                   *)
(***************************************************************************)
C8_HeaderOnly ==
    (Parsed /\ Required /\ FacultyValue \in {ABSENT, Arr(<<>>)}) =>
        /\ stderr = <<>>
        /\ stdout \in {<<>>, <<FirstLine>>}
        /\ pc = "done" => stdout = <<FirstLine>> /\ status = "EXIT_SUCCESS"

C8_Witness ==
    /\ pc = "done"
    /\ FacultyValue = Arr(<<>>)
    /\ stdout = <<"S: D">>
    /\ stderr = <<>>
    /\ status = "EXIT_SUCCESS"

(***************************************************************************)
(* C9: when the process has ended through exit(), with success or after    *)
(* one of the fatal errors, the buffer is not left allocated, the file is  *)
(* not left open and the parsed tree is not left held.                     *)
(***************************************************************************)
C9_AllReleased ==
    (pc = "done" /\ status \in {"EXIT_SUCCESS", "EXIT_FAILURE"}) =>
        buffer # "allocated" /\ fp # "open" /\ tree # "held"

(***************************************************************************)
(* C10: for a named professor whose courses_taught array holds a null,     *)
(* once print_professor has returned the course lines written are those    *)
(* of the elements before the first null; nothing is written to stderr,    *)
(* the following elements get their turn, and the process ends with        *)
(* EXIT_SUCCESS.                                                           *)
(***************************************************************************)
C10_StopAtNull ==
    (Parsed /\ Required /\ Aligned) =>
        \A m \in 1..NameCount :
            (Finished(m) /\ HasNullCourse(Named[m])) =>
                /\ Len(LinesOf(Segment(m), "course")) = FirstNull(Named[m]) - 1
                /\ stderr = <<>>
                /\ pc = "done" => status = "EXIT_SUCCESS"

====
